---- MODULE Spec2Model ----
(***************************************************************************)
(* Goal adjustment, macro accounting and next-meal selection of the        *)
(* nutrition assistant (App.tsx, services/geminiService.ts, Dashboard.tsx). *)
(*                                                                         *)
(* Spec      the profile session: the app starts with INITIAL_GOALS, the    *)
(*           user navigates and edits the goal profile; the effective       *)
(*           goals are re-derived by the useMemo on every change.  The      *)
(*           handlers left out of Next never write goals.                   *)
(* SpecChef  one day of logged entries and a goal profile, drawn from       *)
(*           bounded sets; the dashboard renders its totals, the            *)
(*           Auto-Complete Day button builds the recipe request and the     *)
(*           request succeeds or fails.                                     *)
(* SpecWeek  the weekly view: the seven day summaries are built from the   *)
(*           entries and goals at a clock reading and local UTC offset.    *)
(* SpecLogger a logging session: the modal is opened for a new entry or to *)
(*           edit one, the description is analysed, the entry is saved,    *)
(*           entries are deleted.                                         *)
(* SpecCoach the coach panel: consult, answer or fallback, reset.          *)
(* SpecCore  the totals, the remaining macros and the next meal on inputs  *)
(*           drawn from bounded sets, hours outside 0..23 included.        *)
(* SpecSelect the same computations on entry lists long enough to hold all *)
(*           three main meals.                                             *)
(* SpecEntries handleSaveEntry and handleDeleteEntry called with arbitrary *)
(*           entries and ids, between view changes and water logging.      *)
(* SpecPlan  recipe requests that overlap: the user returns to the         *)
(*           dashboard and asks again while a request is in flight.        *)
(***************************************************************************)
EXTENDS Integers, Sequences, FiniteSets

VARIABLES
    view,           \* App state `view`
    entries,        \* App state `entries`: today's FoodEntry list
    goals,          \* App state `goals`: the base goal profile
    adjustedGoals,  \* useMemo value derived from `goals`
    loadingChef,    \* App state `loadingChef`
    generatedRecipe,\* App state `generatedRecipe`
    chefPending,    \* recipe requests awaiting their response
    prompt,         \* payload of the latest recipe request handed to the model
    dash,           \* values computed by the latest render of <Dashboard>
    weeklyHistory,  \* useMemo value handed to <WeeklyStats>, with the memo's locals
    showLogger,     \* App state `showLogger`
    editingEntry,   \* App state `editingEntry`
    logger,         \* state of the mounted <Logger>
    uuids,          \* number of crypto.randomUUID() values drawn so far
    coachMessage,   \* App state `coachMessage`
    loadingCoach,   \* App state `loadingCoach`
    coachPending,   \* a coaching request awaits its response
    waterIntake     \* App state `waterIntake`, in ml

weekVars == <<weeklyHistory>>

loggerVars == <<showLogger, editingEntry, logger, uuids>>

coachVars == <<coachMessage, loadingCoach, coachPending>>

vars ==
    <<view, entries, goals, adjustedGoals, loadingChef, generatedRecipe, chefPending,
      prompt, dash, weekVars, loggerVars, coachVars, waterIntake>>

(***************************************************************************)
(* Bounds                                                                  *)
(***************************************************************************)
\* longest entry list drawn for a day
MaxLogs == 2

\* number of entry ids crypto.randomUUID() hands out in a logging session
MaxUuids == 2

\* most water, in ml, logged in a session
MaxWater == 500

\* most recipe requests in flight at a time
MaxPending == 2

(***************************************************************************)
(* Types                                                                   *)
(***************************************************************************)
MealTypes == {"Breakfast", "Lunch", "Dinner", "Snack"}

NavViews == {"dashboard", "weekly", "coach", "inventory", "profile"}

\* the fields of UserGoals declared `number`
NumberFields ==
    {"calories", "protein", "carbs", "fat", "steps", "water", "fiber", "salt", "potassium"}

GoalFields == NumberFields \cup {"type", "isTrainingDay"}

GoalTypes == {"Cut", "Recomposition", "Bulk"}

NoPrompt == [sent |-> FALSE]

NoDash == [rendered |-> FALSE]

NoWeek == [built |-> FALSE]

NoLogger == [mounted |-> FALSE]

\* an optional FoodEntry is the empty tuple or the one-element tuple of the entry
undefined == <<>>

\* the parts of the session a specification leaves untouched start as the
\* app constructs them
RestInit ==
    /\ weeklyHistory = NoWeek
    /\ showLogger = FALSE
    /\ editingEntry = undefined
    /\ logger = NoLogger
    /\ uuids = 0
    /\ coachMessage = "null"
    /\ loadingCoach = FALSE
    /\ coachPending = FALSE
    /\ waterIntake = 0

INITIAL_GOALS ==
    [type |-> "Recomposition", calories |-> 2200, protein |-> 180, carbs |-> 200,
     fat |-> 70, isTrainingDay |-> FALSE, steps |-> 8000, water |-> 3000,
     fiber |-> 30, salt |-> 2300, potassium |-> 3500]

(***************************************************************************)
(* Derived state: the effective goals                                      *)
(***************************************************************************)
\* The body of the useMemo.  `base` is the object held in the `goals` state
\* after the computation, `g` the object the memo returns: the spread
\* {...goals} makes g a fresh copy, so the additions never reach `base`.
\* Variant: the training-day modifier scales the targets.
computeAdjustedGoals_mult(base) ==
    LET g0 == base
        g1 == IF g0.isTrainingDay
              THEN [g0 EXCEPT !.calories = (@ * 115) \div 100, !.carbs = (@ * 125) \div 100]
              ELSE g0
        g2 == IF g1.steps > 10000 THEN [g1 EXCEPT !.carbs = @ + 30] ELSE g1
    IN  [base |-> base, g |-> g2]

\* Variant: the step bonus starts at 10000 steps.
computeAdjustedGoals_ge(base) ==
    LET g0 == base
        g1 == IF g0.isTrainingDay
              THEN [g0 EXCEPT !.calories = @ + 300, !.carbs = @ + 50]
              ELSE g0
        g2 == IF g1.steps >= 10000 THEN [g1 EXCEPT !.carbs = @ + 30] ELSE g1
    IN  [base |-> base, g |-> g2]

\* Variant: g aliases the goals object (no spread copy).
computeAdjustedGoals_alias(base) ==
    LET g0 == base
        g1 == IF g0.isTrainingDay
              THEN [g0 EXCEPT !.calories = @ + 300, !.carbs = @ + 50]
              ELSE g0
        g2 == IF g1.steps > 10000 THEN [g1 EXCEPT !.carbs = @ + 30] ELSE g1
    IN  [base |-> g2, g |-> g2]

computeAdjustedGoals(base) ==
    LET g0 == base
        g1 == IF g0.isTrainingDay
              THEN [g0 EXCEPT !.calories = @ + 300, !.carbs = @ + 50]
              ELSE g0
        g2 == IF g1.steps > 10000 THEN [g1 EXCEPT !.carbs = @ + 30] ELSE g1
    IN  [base |-> base, g |-> g2]

\* Variant: the memo is not recomputed when the goals change.
setGoals_stale(newGoals) ==
    /\ goals' = newGoals
    /\ UNCHANGED adjustedGoals

\* setGoals(newGoals) followed by the re-render: the memo depends on [goals]
\* and is recomputed whenever the goals object changes.
setGoals(newGoals) ==
    LET m == computeAdjustedGoals(newGoals)
    IN  /\ goals' = m.base
        /\ adjustedGoals' = m.g

(***************************************************************************)
(* Profile inputs                                                          *)
(***************************************************************************)
\* The text of an <input type="number"> is a string of decimal digits,
\* modelled as a sequence of digits; the empty text is <<>>.
RECURSIVE Number(_)
Number(value) ==
    IF value = <<>> THEN 0
    ELSE Number(SubSeq(value, 1, Len(value) - 1)) * 10 + value[Len(value)]

\* texts typed into the InputCard of each field
InputTexts(field) ==
    CASE field = "calories" -> {<<>>, <<1, 8, 0, 0>>}
      [] field = "steps"    -> {<<1, 0, 0, 0, 0>>, <<1, 0, 0, 0, 1>>, <<1, 1, 0, 0, 0>>}
      [] OTHER              -> {<<>>}

handleGoalChange(field, value) ==
    /\ view = "profile"
    /\ setGoals([goals EXCEPT ![field] =
                    IF field \in NumberFields THEN Number(value) ELSE value])
    /\ UNCHANGED <<view, entries, loadingChef, generatedRecipe, chefPending, prompt, dash,
                 weekVars, loggerVars, coachVars, waterIntake>>

\* the Training Session switch
toggleTrainingDay ==
    /\ view = "profile"
    /\ setGoals([goals EXCEPT !.isTrainingDay = ~goals.isTrainingDay])
    /\ UNCHANGED <<view, entries, loadingChef, generatedRecipe, chefPending, prompt, dash,
                 weekVars, loggerVars, coachVars, waterIntake>>

\* NavItem / BottomNav buttons
setView(id) ==
    /\ view' = id
    /\ UNCHANGED <<entries, goals, adjustedGoals, loadingChef, generatedRecipe, chefPending,
                   prompt, dash, weekVars, loggerVars, coachVars, waterIntake>>

(***************************************************************************)
(* The profile session                                                     *)
(***************************************************************************)
Init ==
    /\ view = "dashboard"
    /\ entries = <<>>
    /\ goals = INITIAL_GOALS
    /\ adjustedGoals = computeAdjustedGoals(INITIAL_GOALS).g
    /\ loadingChef = FALSE
    /\ generatedRecipe = "null"
    /\ chefPending = 0
    /\ prompt = NoPrompt
    /\ dash = NoDash
    /\ RestInit

Next ==
    \/ \E id \in NavViews : setView(id)
    \/ \E field \in NumberFields : \E value \in InputTexts(field) :
            handleGoalChange(field, value)
    \/ \E t \in GoalTypes : handleGoalChange("type", t)
    \/ toggleTrainingDay

Spec == Init /\ [][Next]_vars

(***************************************************************************)
(* Recipe request: remaining macros and next meal                          *)
(***************************************************************************)
\* Variant: the callback returns the field instead of adding it.
RECURSIVE reduce_last(_, _, _)
reduce_last(dailyLogs, field, acc) ==
    IF dailyLogs = <<>> THEN acc
    ELSE reduce_last(Tail(dailyLogs), field, Head(dailyLogs)[field])

\* dailyLogs.reduce((acc, e) => acc + e[field], 0)
RECURSIVE reduce(_, _, _)
reduce(dailyLogs, field, acc) ==
    IF dailyLogs = <<>> THEN acc
    ELSE reduce(Tail(dailyLogs), field, acc + Head(dailyLogs)[field])

\* Math.max(0, x)
max0(x) == IF x > 0 THEN x ELSE 0

\* Variant: the differences are not clamped at 0.
remainingMacros_noclamp(dailyLogs, goalsArg) ==
    [calories |-> goalsArg.calories - reduce(dailyLogs, "calories", 0),
     protein  |-> goalsArg.protein - reduce(dailyLogs, "protein", 0),
     carbs    |-> goalsArg.carbs - reduce(dailyLogs, "carbs", 0),
     fat      |-> goalsArg.fat - reduce(dailyLogs, "fat", 0)]

remainingMacros(dailyLogs, goalsArg) ==
    LET totalCals    == reduce(dailyLogs, "calories", 0)
        totalProtein == reduce(dailyLogs, "protein", 0)
        totalCarbs   == reduce(dailyLogs, "carbs", 0)
        totalFat     == reduce(dailyLogs, "fat", 0)
    IN  [calories |-> max0(goalsArg.calories - totalCals),
         protein  |-> max0(goalsArg.protein - totalProtein),
         carbs    |-> max0(goalsArg.carbs - totalCarbs),
         fat      |-> max0(goalsArg.fat - totalFat)]

\* dailyLogs.some(e => e.mealType === mealType)
some(dailyLogs, mealType) ==
    \E i \in 1..Len(dailyLogs) : dailyLogs[i].mealType = mealType

\* Variant: the hour bounds are inclusive.
selectNextMeal_le(dailyLogs, time) ==
    IF ~some(dailyLogs, "Breakfast") /\ time <= 11 THEN "Breakfast"
    ELSE IF ~some(dailyLogs, "Lunch") /\ time <= 15 THEN "Lunch"
    ELSE IF ~some(dailyLogs, "Dinner") THEN "Dinner"
    ELSE "Snack"

\* Variant: the meal windows of the logger's default slot (5-10, 11-14).
selectNextMeal_morning(dailyLogs, time) ==
    IF ~some(dailyLogs, "Breakfast") /\ time >= 5 /\ time < 11 THEN "Breakfast"
    ELSE IF ~some(dailyLogs, "Lunch") /\ time >= 11 /\ time < 15 THEN "Lunch"
    ELSE IF ~some(dailyLogs, "Dinner") THEN "Dinner"
    ELSE "Snack"

\* Variant: the Lunch rule is tried before the Breakfast rule.
selectNextMeal_reordered(dailyLogs, time) ==
    IF ~some(dailyLogs, "Lunch") /\ time < 15 THEN "Lunch"
    ELSE IF ~some(dailyLogs, "Breakfast") /\ time < 11 THEN "Breakfast"
    ELSE IF ~some(dailyLogs, "Dinner") THEN "Dinner"
    ELSE "Snack"

\* Variant: Dinner is also proposed in the evening when it is logged.
selectNextMeal_evening(dailyLogs, time) ==
    IF ~some(dailyLogs, "Breakfast") /\ time < 11 THEN "Breakfast"
    ELSE IF ~some(dailyLogs, "Lunch") /\ time < 15 THEN "Lunch"
    ELSE IF ~some(dailyLogs, "Dinner") \/ time >= 15 THEN "Dinner"
    ELSE "Snack"

\* Variant: the slot is looked up in a table of the 24 hours of the day.
selectNextMeal_table(dailyLogs, time) ==
    IF time \notin 0..23 THEN "undefined"
    ELSE IF ~some(dailyLogs, "Breakfast") /\ time < 11 THEN "Breakfast"
    ELSE IF ~some(dailyLogs, "Lunch") /\ time < 15 THEN "Lunch"
    ELSE IF ~some(dailyLogs, "Dinner") THEN "Dinner"
    ELSE "Snack"

selectNextMeal(dailyLogs, time) ==
    LET hasBreakfast == some(dailyLogs, "Breakfast")
        hasLunch     == some(dailyLogs, "Lunch")
        hasDinner    == some(dailyLogs, "Dinner")
    IN  IF ~hasBreakfast /\ time < 11 THEN "Breakfast"
        ELSE IF ~hasLunch /\ time < 15 THEN "Lunch"
        ELSE IF ~hasDinner THEN "Dinner"
        ELSE "Snack"

\* The part of generateMealCompletion that builds the request; `time` is the
\* value of new Date().getHours() read inside the call.
generateMealCompletion(dailyLogs, goalsArg, time) ==
    [sent      |-> TRUE,
     remaining |-> remainingMacros(dailyLogs, goalsArg),
     time      |-> time,
     nextMeal  |-> selectNextMeal(dailyLogs, time)]

\* handleAutoGeneratePlan up to the await.  The button is Auto-Complete Day
\* on the dashboard, or Complete My Day in the coach view, which is shown
\* while no recipe is displayed and is disabled while loadingChef.
\* Variant: the request is built from the base goals.
handleAutoGeneratePlan_base ==
    /\ \/ view = "dashboard"
       \/ view = "coach" /\ generatedRecipe = "null" /\ ~loadingChef
    /\ chefPending < MaxPending
    /\ view' = "coach"
    /\ loadingChef' = TRUE
    /\ \E time \in 0..23 : prompt' = generateMealCompletion(entries, goals, time)
    /\ chefPending' = chefPending + 1
    /\ UNCHANGED <<entries, goals, adjustedGoals, generatedRecipe, dash,
                   weekVars, loggerVars, coachVars, waterIntake>>

handleAutoGeneratePlan ==
    /\ \/ view = "dashboard"
       \/ view = "coach" /\ generatedRecipe = "null" /\ ~loadingChef
    /\ chefPending < MaxPending
    /\ view' = "coach"
    /\ loadingChef' = TRUE
    /\ \E time \in 0..23 : prompt' = generateMealCompletion(entries, adjustedGoals, time)
    /\ chefPending' = chefPending + 1
    /\ UNCHANGED <<entries, goals, adjustedGoals, generatedRecipe, dash,
                   weekVars, loggerVars, coachVars, waterIntake>>

\* handleAutoGeneratePlan after the await, the request having succeeded
handleAutoGeneratePlanResolved ==
    /\ chefPending > 0
    /\ chefPending' = chefPending - 1
    /\ generatedRecipe' = "recipe"
    /\ loadingChef' = FALSE
    /\ UNCHANGED <<view, entries, goals, adjustedGoals, prompt, dash,
                   weekVars, loggerVars, coachVars, waterIntake>>

\* Variant: setLoadingChef(false) is the last statement of the try block.
handleAutoGeneratePlanRejected_inTry ==
    /\ chefPending > 0
    /\ chefPending' = chefPending - 1
    /\ UNCHANGED <<view, entries, goals, adjustedGoals, generatedRecipe, prompt, dash,
                   loadingChef, weekVars, loggerVars, coachVars, waterIntake>>

\* handleAutoGeneratePlan after the await, the request having thrown
handleAutoGeneratePlanRejected ==
    /\ chefPending > 0
    /\ chefPending' = chefPending - 1
    /\ loadingChef' = FALSE
    /\ UNCHANGED <<view, entries, goals, adjustedGoals, generatedRecipe, prompt, dash,
                   weekVars, loggerVars, coachVars, waterIntake>>

(***************************************************************************)
(* Dashboard totals                                                        *)
(***************************************************************************)
\* (x || 0)
orZero(x) == IF x = 0 THEN 0 ELSE x

\* entries.reduce((acc, e) => acc + (e[field] || 0), 0)
RECURSIVE reduceOrZero(_, _, _)
reduceOrZero(list, field, acc) ==
    IF list = <<>> THEN acc
    ELSE reduceOrZero(Tail(list), field, acc + orZero(Head(list)[field]))

\* Variant: the Snacks card filters by its title.
groupEntries_title(list, type) ==
    SelectSeq(list, LAMBDA e : e.mealType = (IF type = "Snack" THEN "Snacks" ELSE type))

\* groupEntries: entries.filter(e => e.mealType === type)
groupEntries(list, type) == SelectSeq(list, LAMBDA e : e.mealType = type)

\* <MealCard entries={...}>: the calorie total shown on a meal card
MealCard(cardEntries) == [totalCals |-> reduce(cardEntries, "calories", 0)]

\* the four meal cards of the dashboard
mealCards(list) ==
    [type \in MealTypes |-> MealCard(groupEntries(list, type)).totalCals]

\* Variant: the potassium total folds the salt field.
Dashboard_copypaste(list, goalsProp) ==
    LET totalCals == reduce(list, "calories", 0)
    IN  [rendered       |-> TRUE,
         totalCals      |-> totalCals,
         totalProtein   |-> reduce(list, "protein", 0),
         totalCarbs     |-> reduce(list, "carbs", 0),
         totalFat       |-> reduce(list, "fat", 0),
         totalFiber     |-> reduceOrZero(list, "fiber", 0),
         totalSalt      |-> reduceOrZero(list, "salt", 0),
         totalPotassium |-> reduceOrZero(list, "salt", 0),
         remainingCals  |-> goalsProp.calories - totalCals,
         gaugeRemaining |-> max0(goalsProp.calories - totalCals),
         mealCals       |-> mealCards(list)]

Dashboard(list, goalsProp) ==
    LET totalCals     == reduce(list, "calories", 0)
        remainingCals == goalsProp.calories - totalCals
    IN  [rendered       |-> TRUE,
         totalCals      |-> totalCals,
         totalProtein   |-> reduce(list, "protein", 0),
         totalCarbs     |-> reduce(list, "carbs", 0),
         totalFat       |-> reduce(list, "fat", 0),
         totalFiber     |-> reduceOrZero(list, "fiber", 0),
         totalSalt      |-> reduceOrZero(list, "salt", 0),
         totalPotassium |-> reduceOrZero(list, "potassium", 0),
         remainingCals  |-> remainingCals,
         gaugeRemaining |-> IF remainingCals < 0 THEN 0 ELSE max0(remainingCals),
         mealCals       |-> mealCards(list)]

\* renderView, case 'dashboard': <Dashboard entries={entries} goals={adjustedGoals}>
renderDashboard ==
    /\ view = "dashboard"
    /\ dash' = Dashboard(entries, adjustedGoals)
    /\ UNCHANGED <<view, entries, goals, adjustedGoals, loadingChef, generatedRecipe,
                   chefPending, prompt, weekVars, loggerVars, coachVars,
                   waterIntake>>

(***************************************************************************)
(* One day of entries                                                      *)
(***************************************************************************)
\* nutrient payloads of the logged meals
Foods ==
    {[calories |-> 1200, protein |-> 90, carbs |-> 150, fat |-> 40,
      fiber |-> 12, salt |-> 900, potassium |-> 1100],
     [calories |-> 1000, protein |-> 90, carbs |-> 130, fat |-> 30,
      fiber |-> 0, salt |-> 1500, potassium |-> 700]}

FoodEntry(id, mealType, n) ==
    [id |-> id, mealType |-> mealType, calories |-> n.calories,
     protein |-> n.protein, carbs |-> n.carbs, fat |-> n.fat,
     fiber |-> n.fiber, salt |-> n.salt, potassium |-> n.potassium]

\* entry lists of at most MaxLogs entries with pairwise distinct ids
DayLogs ==
    UNION { { [i \in 1..n |-> FoodEntry(i, ms[i], fs[i])] :
                ms \in [1..n -> MealTypes], fs \in [1..n -> Foods] } :
            n \in 0..MaxLogs }

ZERO_GOALS ==
    [type |-> "Cut", calories |-> 0, protein |-> 0, carbs |-> 0,
     fat |-> 0, isTrainingDay |-> FALSE, steps |-> 0, water |-> 0,
     fiber |-> 0, salt |-> 0, potassium |-> 0]

\* goal profiles the profile inputs can produce
GoalProfiles ==
    { [INITIAL_GOALS EXCEPT !.isTrainingDay = t, !.steps = s] :
        t \in BOOLEAN, s \in {8000, 10000, 11000} } \cup {ZERO_GOALS}

InitChef ==
    /\ view = "dashboard"
    /\ entries \in DayLogs
    /\ goals \in GoalProfiles
    /\ adjustedGoals = computeAdjustedGoals(goals).g
    /\ loadingChef = FALSE
    /\ generatedRecipe = "null"
    /\ chefPending = 0
    /\ prompt = NoPrompt
    /\ dash = NoDash
    /\ RestInit

NextChef ==
    \/ renderDashboard
    \/ handleAutoGeneratePlan
    \/ handleAutoGeneratePlanResolved
    \/ handleAutoGeneratePlanRejected

SpecChef == InitChef /\ [][NextChef]_vars

\* the Clear Recipe button under the recipe
clearRecipe ==
    /\ view = "coach"
    /\ generatedRecipe # "null"
    /\ generatedRecipe' = "null"
    /\ UNCHANGED <<view, entries, goals, adjustedGoals, loadingChef, chefPending,
                   prompt, dash, weekVars, loggerVars, coachVars, waterIntake>>

\* the planning session: the user moves between the views and asks for
\* recipes, from the dashboard also while a request is in flight
PlanLogs == {<<>>} \cup {<<FoodEntry(1, "Breakfast", n)>> : n \in Foods}

InitPlan ==
    /\ view = "dashboard"
    /\ entries \in PlanLogs
    /\ goals = INITIAL_GOALS
    /\ adjustedGoals = computeAdjustedGoals(goals).g
    /\ loadingChef = FALSE
    /\ generatedRecipe = "null"
    /\ chefPending = 0
    /\ prompt = NoPrompt
    /\ dash = NoDash
    /\ RestInit

\* a request in flight settles: it resolves or it throws
settlePlan == handleAutoGeneratePlanResolved \/ handleAutoGeneratePlanRejected

NextPlan ==
    \/ \E id \in NavViews : setView(id)
    \/ handleAutoGeneratePlan
    \/ handleAutoGeneratePlanResolved
    \/ handleAutoGeneratePlanRejected
    \/ clearRecipe

\* every request settles and the event loop runs the rest of the handler
SpecPlan == InitPlan /\ [][NextPlan]_vars /\ WF_vars(settlePlan)

(***************************************************************************)
(* The core computations on arbitrary inputs                               *)
(***************************************************************************)
\* hours handed to the next-meal selection, in and out of the range of
\* getHours()
CoreHours == (0 - 2)..26

\* the totals, the remaining macros and the next meal computed for the
\* entries, the effective goals and an hour
evaluateCore ==
    /\ ~prompt.sent
    /\ \E time \in CoreHours :
            prompt' = generateMealCompletion(entries, adjustedGoals, time)
    /\ dash' = Dashboard(entries, adjustedGoals)
    /\ UNCHANGED <<view, entries, goals, adjustedGoals, loadingChef, generatedRecipe,
                   chefPending, weekVars, loggerVars, coachVars, waterIntake>>

InitCore == InitChef

NextCore == evaluateCore

SpecCore == InitCore /\ [][NextCore]_vars

\* entry lists of up to MaxLogs + 1 entries of one food, every slot
\* combination: the lists with all three main meals are among them
MealLogs ==
    UNION { { [i \in 1..n |->
                 FoodEntry(i, ms[i],
                           [calories |-> 600, protein |-> 45, carbs |-> 60, fat |-> 20,
                            fiber |-> 8, salt |-> 500, potassium |-> 600])] :
              ms \in [1..n -> MealTypes] } :
            n \in 0..(MaxLogs + 1) }

InitSelect ==
    /\ view = "dashboard"
    /\ entries \in MealLogs
    /\ goals = INITIAL_GOALS
    /\ adjustedGoals = computeAdjustedGoals(goals).g
    /\ loadingChef = FALSE
    /\ generatedRecipe = "null"
    /\ chefPending = 0
    /\ prompt = NoPrompt
    /\ dash = NoDash
    /\ RestInit

NextSelect == evaluateCore

SpecSelect == InitSelect /\ [][NextSelect]_vars

(***************************************************************************)
(* Weekly history                                                          *)
(***************************************************************************)
\* A Date is an instant in whole hours since a Monday 00:00 UTC; tz is the
\* offset of the local zone from UTC in hours (no daylight-saving change
\* within the week).

\* Date.getDay(): local weekday, 0 = Sunday ... 6 = Saturday
getDay(t, tz) == (((t + tz) \div 24) + 1) % 7

\* Date.toISOString().split('T')[0]: the calendar day in UTC
toISODate(t) == t \div 24

\* Date.setDate(getDate() + n): the same local time n days later
addDays(t, n) == t + 24 * n

\* Date.setHours(0,0,0,0): local midnight of the local day
startOfDay(t, tz) == ((t + tz) \div 24) * 24 - tz

\* Math.round(n / d) for d > 0
round(n, d) == (2 * n + d) \div (2 * d)

\* Math.floor(n / d) for d > 0
floor(n, d) == n \div d

dayNames == <<"Mon", "Tue", "Wed", "Thu", "Fri", "Sat", "Sun">>

\* Variant: Sunday is not special-cased.
distanceToMonday_plain(currentDay) == currentDay - 1

distanceToMonday(currentDay) == IF currentDay = 0 THEN 6 ELSE currentDay - 1

\* Variant: the variance spans +/- 30%.
mockEntry_wide(i, d, goalsArg, r) ==
    LET dailyCals == round(goalsArg.calories * (7000 + 6 * r), 10000)
    IN  [id |-> 0 - (i + 1), name |-> "Mock Entry", mealType |-> "Snack",
         timestamp |-> d, tags |-> <<>>, inflammationFlags |-> <<>>,
         calories |-> dailyCals,
         protein |-> round(dailyCals * 3, 40),
         carbs |-> round(dailyCals * 4, 40),
         fat |-> round(dailyCals * 3, 90),
         fiber |-> 20, salt |-> 2000, potassium |-> 3000]

\* Variant: the macros are truncated instead of rounded.
mockEntry_floor(i, d, goalsArg, r) ==
    LET dailyCals == round(goalsArg.calories * (8000 + 4 * r), 10000)
    IN  [id |-> 0 - (i + 1), name |-> "Mock Entry", mealType |-> "Snack",
         timestamp |-> d, tags |-> <<>>, inflammationFlags |-> <<>>,
         calories |-> dailyCals,
         protein |-> floor(dailyCals * 3, 40),
         carbs |-> floor(dailyCals * 4, 40),
         fat |-> floor(dailyCals * 3, 90),
         fiber |-> 20, salt |-> 2000, potassium |-> 3000]

\* The mock entry of a past day.  r is the value of Math.random() in
\* thousandths: variance = r/1000 * 0.4 - 0.2 and
\* dailyCals = Math.round(calories * (1 + variance)).  The id `mock-${i}`
\* is modelled as -(i + 1), apart from the ids of logged entries.
mockEntry(i, d, goalsArg, r) ==
    LET dailyCals == round(goalsArg.calories * (8000 + 4 * r), 10000)
        p == round(dailyCals * 3, 40)
        c == round(dailyCals * 4, 40)
        f == round(dailyCals * 3, 90)
    IN  [id |-> 0 - (i + 1), name |-> "Mock Entry", mealType |-> "Snack",
         timestamp |-> d, tags |-> <<>>, inflammationFlags |-> <<>>,
         calories |-> dailyCals, protein |-> p, carbs |-> c, fat |-> f,
         fiber |-> 20, salt |-> 2000, potassium |-> 3000]

\* Variant: the today branch is tried before the future branch.
weeklyHistoryDay_todayFirst(i, today, monday, list, goalsArg, r) ==
    LET d        == addDays(monday, i)
        dateStr  == toISODate(d)
        isFuture == d > today
        isToday  == dateStr = toISODate(today)
    IN  IF isToday
        THEN [date |-> dateStr, dayName |-> dayNames[i + 1], entries |-> list]
        ELSE IF isFuture
        THEN [date |-> dateStr, dayName |-> dayNames[i + 1], entries |-> <<>>]
        ELSE [date |-> dateStr, dayName |-> dayNames[i + 1],
              entries |-> <<mockEntry(i, d, goalsArg, r)>>]

\* one iteration of the loop, i = 0 .. 6
weeklyHistoryDay(i, today, monday, list, goalsArg, r) ==
    LET d        == addDays(monday, i)
        dateStr  == toISODate(d)
        isFuture == d > today
        isToday  == dateStr = toISODate(today)
    IN  IF isFuture
        THEN [date |-> dateStr, dayName |-> dayNames[i + 1], entries |-> <<>>]
        ELSE IF isToday
        THEN [date |-> dateStr, dayName |-> dayNames[i + 1], entries |-> list]
        ELSE [date |-> dateStr, dayName |-> dayNames[i + 1],
              entries |-> <<mockEntry(i, d, goalsArg, r)>>]

\* The body of the weeklyHistory memo: today is new Date(), rnd[i] the value
\* Math.random() returns in iteration i.  The locals today, tz and monday are
\* kept next to the history.
mondayOf(today, tz) ==
    LET currentDay == getDay(today, tz)
    IN  startOfDay(addDays(today, 0 - distanceToMonday(currentDay)), tz)

\* the iterations that reach the mock branch and call Math.random()
mockDays(today, tz) ==
    {i \in 0..6 :
        LET d == addDays(mondayOf(today, tz), i)
        IN  ~(d > today) /\ toISODate(d) # toISODate(today)}

computeWeeklyHistory(today, tz, list, goalsArg, rnd) ==
    LET monday == mondayOf(today, tz)
    IN  [built  |-> TRUE,
         today  |-> today,
         tz     |-> tz,
         monday |-> monday,
         days   |-> [k \in 1..7 |->
                       weeklyHistoryDay(k - 1, today, monday, list, goalsArg, rnd[k - 1])]]

\* local calendar days of the week the clock is drawn from
ClockDays == 7..13

\* offsets of the local zone from UTC, in hours
TimeZones == {0 - 12, 0 - 5, 0, 1, 14}

\* values of Math.random(), in thousandths
RandomDraws == {0, 999}

\* day.entries.reduce((eAcc, e) => eAcc + e.calories, 0) summed over the days
RECURSIVE reduceDays(_, _)
reduceDays(days, acc) ==
    IF days = <<>> THEN acc
    ELSE reduceDays(Tail(days), acc + reduce(Head(days).entries, "calories", 0))

\* the summary figures of <WeeklyStats history={...} goals={...}>
WeeklyStats(history, goalsProp) ==
    LET activeDays      == SelectSeq(history, LAMBDA day : Len(day.entries) > 0)
        totalWeeklyCals == reduceDays(activeDays, 0)
        daysPassed      == IF Len(activeDays) = 0 THEN 1 ELSE Len(activeDays)
        targetWeeklyCals == goalsProp.calories * daysPassed
    IN  [daysPassed |-> daysPassed,
         totalWeeklyCals |-> totalWeeklyCals,
         targetWeeklyCals |-> targetWeeklyCals,
         diff |-> targetWeeklyCals - totalWeeklyCals]

\* renderView, case 'weekly': the memo is computed for the current entries
\* and goals and handed to <WeeklyStats>
renderWeekly ==
    /\ view = "weekly"
    /\ ~weeklyHistory.built
    /\ \E day \in ClockDays, hour \in 0..23, tz \in TimeZones :
          LET today == day * 24 + hour - tz
          IN  \E drawn \in [mockDays(today, tz) -> RandomDraws] :
                LET history ==
                        computeWeeklyHistory(today, tz, entries, goals,
                            [i \in 0..6 |-> IF i \in DOMAIN drawn THEN drawn[i] ELSE 0])
                IN  weeklyHistory' =
                        [built |-> TRUE, today |-> history.today, tz |-> history.tz,
                         monday |-> history.monday, days |-> history.days,
                         stats |-> WeeklyStats(history.days, adjustedGoals)]
    /\ UNCHANGED <<view, entries, goals, adjustedGoals, loadingChef, generatedRecipe,
                   chefPending, prompt, dash, loggerVars, coachVars, waterIntake>>

\* entry lists and goal profiles of the weekly view
WeekLogs == {<<>>} \cup {<<FoodEntry(1, "Lunch", n)>> : n \in Foods}

WeekGoals ==
    {INITIAL_GOALS, [INITIAL_GOALS EXCEPT !.calories = 2203, !.isTrainingDay = TRUE],
     ZERO_GOALS}

InitWeek ==
    /\ view = "weekly"
    /\ entries \in WeekLogs
    /\ goals \in WeekGoals
    /\ adjustedGoals = computeAdjustedGoals(goals).g
    /\ loadingChef = FALSE
    /\ generatedRecipe = "null"
    /\ chefPending = 0
    /\ prompt = NoPrompt
    /\ dash = NoDash
    /\ RestInit

NextWeek == renderWeekly

SpecWeek == InitWeek /\ [][NextWeek]_vars

(***************************************************************************)
(* Logger modal                                                            *)
(***************************************************************************)
\* useEffect of <Logger>: the default slot of a new entry by the hour
defaultMealType(h) ==
    IF h >= 5 /\ h < 11 THEN "Breakfast"
    ELSE IF h >= 11 /\ h < 15 THEN "Lunch"
    ELSE IF h >= 15 /\ h < 22 THEN "Dinner"
    ELSE "Snack"

\* state of a freshly mounted <Logger initialEntry=...> after its effect ran
\* at hour h; analysis is the state of the latest analyzeMultimodal promise
\* and result the value the latest handleAnalyze call received from it
Logger(initialEntry, h) ==
    IF initialEntry = undefined
    THEN [mounted |-> TRUE, initialEntry |-> undefined, step |-> "input",
          inputText |-> "", loading |-> FALSE, analysis |-> "none",
          result |-> <<>>,
          mealType |-> defaultMealType(h),
          calories |-> 0, protein |-> 0, carbs |-> 0, fat |-> 0,
          fiber |-> 0, salt |-> 0, potassium |-> 0]
    ELSE [mounted |-> TRUE, initialEntry |-> initialEntry, step |-> "review",
          inputText |-> "", loading |-> FALSE, analysis |-> "none",
          result |-> <<>>,
          mealType |-> initialEntry[1].mealType,
          calories |-> initialEntry[1].calories, protein |-> initialEntry[1].protein,
          carbs |-> initialEntry[1].carbs, fat |-> initialEntry[1].fat,
          fiber |-> initialEntry[1].fiber, salt |-> initialEntry[1].salt,
          potassium |-> initialEntry[1].potassium]

\* the Log Food buttons
handleOpenLogger ==
    /\ ~showLogger
    /\ editingEntry' = undefined
    /\ showLogger' = TRUE
    /\ \E h \in 0..23 : logger' = Logger(undefined, h)
    /\ UNCHANGED <<view, entries, goals, adjustedGoals, loadingChef, generatedRecipe,
                   chefPending, prompt, dash, uuids, weekVars, coachVars,
                   waterIntake>>

\* the pencil button of a dashboard entry
handleEditEntry(entry) ==
    /\ ~showLogger
    /\ view = "dashboard"
    /\ editingEntry' = <<entry>>
    /\ showLogger' = TRUE
    /\ \E h \in 0..23 : logger' = Logger(<<entry>>, h)
    /\ UNCHANGED <<view, entries, goals, adjustedGoals, loadingChef, generatedRecipe,
                   chefPending, prompt, dash, uuids, weekVars, coachVars,
                   waterIntake>>

\* Variant: the filter drops the entries up to the one with the id.
handleDeleteEntry_upto(id) ==
    /\ ~showLogger
    /\ view = "dashboard"
    /\ entries' = IF \E i \in 1..Len(entries) : entries[i].id = id
                  THEN SubSeq(entries,
                              1 + CHOOSE i \in 1..Len(entries) : entries[i].id = id,
                              Len(entries))
                  ELSE entries
    /\ UNCHANGED <<view, goals, adjustedGoals, loadingChef, generatedRecipe,
                   chefPending, prompt, dash, weekVars, loggerVars, coachVars,
                   waterIntake>>

\* the trash button of a dashboard entry
handleDeleteEntry(id) ==
    /\ ~showLogger
    /\ view = "dashboard"
    /\ entries' = SelectSeq(entries, LAMBDA e : e.id # id)
    /\ UNCHANGED <<view, goals, adjustedGoals, loadingChef, generatedRecipe,
                   chefPending, prompt, dash, weekVars, loggerVars, coachVars,
                   waterIntake>>

\* Variant: closing the modal leaves the editing entry set.
onCancel_keepEditing ==
    /\ showLogger
    /\ showLogger' = FALSE
    /\ logger' = NoLogger
    /\ UNCHANGED <<view, entries, goals, adjustedGoals, loadingChef, generatedRecipe,
                   chefPending, prompt, dash, editingEntry, uuids, weekVars, coachVars,
                   waterIntake>>

\* the backdrop and the X button of the modal; the unmounted Logger's
\* pending analysis is dropped with it
onCancel ==
    /\ showLogger
    /\ showLogger' = FALSE
    /\ editingEntry' = undefined
    /\ logger' = NoLogger
    /\ UNCHANGED <<view, entries, goals, adjustedGoals, loadingChef, generatedRecipe,
                   chefPending, prompt, dash, uuids, weekVars, coachVars,
                   waterIntake>>

\* what the user types into the description box
InputTextValues == {"", "oats with milk"}

\* the textarea of the input step
setInputText(text) ==
    /\ logger.mounted
    /\ logger.step = "input"
    /\ logger' = [logger EXCEPT !.inputText = text]
    /\ UNCHANGED <<view, entries, goals, adjustedGoals, loadingChef, generatedRecipe,
                   chefPending, prompt, dash, showLogger, editingEntry, uuids,
                   weekVars, coachVars, waterIntake>>

\* the meal slot select of the input step and of the review step
setMealType(m) ==
    /\ logger.mounted
    /\ logger.mealType # m
    /\ logger' = [logger EXCEPT !.mealType = m]
    /\ UNCHANGED <<view, entries, goals, adjustedGoals, loadingChef, generatedRecipe,
                   chefPending, prompt, dash, showLogger, editingEntry, uuids,
                   weekVars, coachVars, waterIntake>>

\* the Analyze button, up to the await (no images are attached)
handleAnalyze ==
    /\ logger.mounted
    /\ logger.step = "input"
    /\ ~logger.loading
    /\ logger.inputText # ""
    /\ logger' = [logger EXCEPT !.loading = TRUE, !.analysis = "pending",
                                !.result = <<>>]
    /\ UNCHANGED <<view, entries, goals, adjustedGoals, loadingChef, generatedRecipe,
                   chefPending, prompt, dash, showLogger, editingEntry, uuids,
                   weekVars, coachVars, waterIntake>>

\* parsed responses of analyzeMultimodal: a full answer per slot, and an
\* answer without the nutrient fields
AnalysisResults ==
    { [mealType |-> m, calories |-> 1200, protein |-> 90, carbs |-> 150, fat |-> 40,
       fiber |-> 12, salt |-> 900, potassium |-> 1100] : m \in MealTypes }
    \cup {[insight |-> ""]}

\* result[field] || 0
resultOrZero(result, field) ==
    IF field \in DOMAIN result THEN result[field] ELSE 0

\* Variant: the catch block falls through to the review step.
handleAnalyzeRejected_fallthrough ==
    /\ logger.mounted
    /\ logger.analysis = "pending"
    /\ logger' = [logger EXCEPT !.step = "review", !.loading = FALSE,
                                !.analysis = "rejected"]
    /\ UNCHANGED <<view, entries, goals, adjustedGoals, loadingChef, generatedRecipe,
                   chefPending, prompt, dash, showLogger, editingEntry, uuids,
                   weekVars, coachVars, waterIntake>>

\* handleAnalyze after the await threw: catch (alert), finally
handleAnalyzeRejected ==
    /\ logger.mounted
    /\ logger.analysis = "pending"
    /\ logger' = [logger EXCEPT !.loading = FALSE, !.analysis = "rejected"]
    /\ UNCHANGED <<view, entries, goals, adjustedGoals, loadingChef, generatedRecipe,
                   chefPending, prompt, dash, showLogger, editingEntry, uuids,
                   weekVars, coachVars, waterIntake>>

\* handleAnalyze after the await returned result: the rest of try, finally
handleAnalyzeResolved(result) ==
    /\ logger.mounted
    /\ logger.analysis = "pending"
    /\ logger' = [logger EXCEPT
                    !.calories = resultOrZero(result, "calories"),
                    !.protein = resultOrZero(result, "protein"),
                    !.carbs = resultOrZero(result, "carbs"),
                    !.fat = resultOrZero(result, "fat"),
                    !.fiber = resultOrZero(result, "fiber"),
                    !.salt = resultOrZero(result, "salt"),
                    !.potassium = resultOrZero(result, "potassium"),
                    !.mealType = IF "mealType" \in DOMAIN result
                                    /\ result.mealType # "Snack"
                                 THEN result.mealType ELSE @,
                    !.step = "review",
                    !.loading = FALSE,
                    !.analysis = "fulfilled",
                    !.result = <<result>>]
    /\ UNCHANGED <<view, entries, goals, adjustedGoals, loadingChef, generatedRecipe,
                   chefPending, prompt, dash, showLogger, editingEntry, uuids,
                   weekVars, coachVars, waterIntake>>

\* the Back button of the review step, shown for a new entry only
setStepInput ==
    /\ logger.mounted
    /\ logger.step = "review"
    /\ logger.initialEntry = undefined
    /\ logger' = [logger EXCEPT !.step = "input"]
    /\ UNCHANGED <<view, entries, goals, adjustedGoals, loadingChef, generatedRecipe,
                   chefPending, prompt, dash, showLogger, editingEntry, uuids,
                   weekVars, coachVars, waterIntake>>

\* Variant: the entry is appended whether or not its id is present.
upsert_append(prev, entry) == Append(prev, entry)

\* Variant: the entry with the id is dropped and the saved one appended.
upsert_moveToEnd(prev, entry) ==
    Append(SelectSeq(prev, LAMBDA e : e.id # entry.id), entry)

\* setEntries updater of handleSaveEntry
upsert(prev, entry) ==
    IF \E i \in 1..Len(prev) : prev[i].id = entry.id
    THEN [i \in 1..Len(prev) |-> IF prev[i].id = entry.id THEN entry ELSE prev[i]]
    ELSE Append(prev, entry)

\* onSave of the modal
handleSaveEntry(entry) ==
    /\ entries' = upsert(entries, entry)
    /\ editingEntry' = undefined
    /\ showLogger' = FALSE
    /\ view' = "dashboard"
    /\ logger' = NoLogger

\* the Save / Update button of the review step; a new entry takes the next
\* random id
handleFinalSave ==
    /\ logger.mounted
    /\ logger.step = "review"
    /\ IF logger.initialEntry = undefined
       THEN /\ uuids < MaxUuids
            /\ uuids' = uuids + 1
            /\ handleSaveEntry(FoodEntry(uuids + 1, logger.mealType, logger))
       ELSE /\ uuids' = uuids
            /\ handleSaveEntry(FoodEntry(logger.initialEntry[1].id, logger.mealType, logger))
    /\ UNCHANGED <<goals, adjustedGoals, loadingChef, generatedRecipe,
                   chefPending, prompt, dash, weekVars, coachVars, waterIntake>>

\* a logging session starts as the app does
InitLogger == Init

NextLogger ==
    \/ handleOpenLogger
    \/ \E i \in 1..Len(entries) : handleEditEntry(entries[i])
    \/ \E i \in 1..Len(entries) : handleDeleteEntry(entries[i].id)
    \/ onCancel
    \/ \E text \in InputTextValues : setInputText(text)
    \/ \E m \in MealTypes : setMealType(m)
    \/ handleAnalyze
    \/ \E result \in AnalysisResults : handleAnalyzeResolved(result)
    \/ handleAnalyzeRejected
    \/ setStepInput
    \/ handleFinalSave

SpecLogger == InitLogger /\ [][NextLogger]_vars

(***************************************************************************)
(* The entry collection under arbitrary calls                              *)
(***************************************************************************)
\* ids the callers pass
EntryIds == 1..(MaxUuids + 1)

\* entries the callers pass to handleSaveEntry
SavedEntries ==
    { FoodEntry(id, "Snack", n) : id \in EntryIds, n \in Foods }

\* onSave called with any entry
saveEntry(entry) ==
    /\ handleSaveEntry(entry)
    /\ UNCHANGED <<goals, adjustedGoals, loadingChef, generatedRecipe,
                   chefPending, prompt, dash, uuids, weekVars, coachVars, waterIntake>>

\* the +250ml and +500ml buttons of the dashboard
onAddWater(amount) ==
    /\ view = "dashboard"
    /\ ~showLogger
    /\ waterIntake + amount <= MaxWater
    /\ waterIntake' = waterIntake + amount
    /\ UNCHANGED <<view, entries, goals, adjustedGoals, loadingChef, generatedRecipe,
                   chefPending, prompt, dash, weekVars, loggerVars, coachVars>>

InitEntries == Init

NextEntries ==
    \/ \E entry \in SavedEntries : saveEntry(entry)
    \/ \E id \in EntryIds : handleDeleteEntry(id)
    \/ \E amount \in {250, 500} : onAddWater(amount)
    \/ \E id \in NavViews : setView(id)
    \/ toggleTrainingDay

SpecEntries == InitEntries /\ [][NextEntries]_vars

(***************************************************************************)
(* The Coach                                                               *)
(***************************************************************************)
\* outcomes of ai.models.generateContent: a response with text, a response
\* with empty text, a response without text, a rejection
CoachResponses ==
    {[ok |-> TRUE, text |-> <<"Watch the salt.">>], [ok |-> TRUE, text |-> <<"">>],
     [ok |-> TRUE, text |-> <<>>], [ok |-> FALSE, text |-> <<>>]}

\* Variant: the text of the response is returned as it is.
getCoachAdvice_raw(response) ==
    IF response.ok /\ response.text # <<>> THEN response.text[1] ELSE ""

\* the value getCoachAdvice resolves with
getCoachAdvice(response) ==
    IF response.ok
    THEN IF response.text # <<>> /\ response.text[1] # ""
         THEN response.text[1]
         ELSE "Keep pushing towards your goals."
    ELSE "The Coach is currently offline."

\* the Analyze My Day button, up to the await
handleConsultCoach ==
    /\ view = "coach"
    /\ coachMessage = "null"
    /\ ~loadingCoach
    /\ loadingCoach' = TRUE
    /\ coachPending' = TRUE
    /\ UNCHANGED <<view, entries, goals, adjustedGoals, loadingChef, generatedRecipe,
                   chefPending, prompt, dash, coachMessage, weekVars, loggerVars,
                   waterIntake>>

\* handleConsultCoach after the await
handleConsultCoachResumed ==
    /\ coachPending
    /\ \E response \in CoachResponses : coachMessage' = getCoachAdvice(response)
    /\ loadingCoach' = FALSE
    /\ coachPending' = FALSE
    /\ UNCHANGED <<view, entries, goals, adjustedGoals, loadingChef, generatedRecipe,
                   chefPending, prompt, dash, weekVars, loggerVars, waterIntake>>

\* the Reset link under the coach's message
resetCoachMessage ==
    /\ view = "coach"
    /\ coachMessage \notin {"null", ""}
    /\ coachMessage' = "null"
    /\ UNCHANGED <<view, entries, goals, adjustedGoals, loadingChef, generatedRecipe,
                   chefPending, prompt, dash, loadingCoach, coachPending,
                   weekVars, loggerVars, waterIntake>>

InitCoach ==
    /\ view = "dashboard"
    /\ entries \in WeekLogs
    /\ goals \in GoalProfiles
    /\ adjustedGoals = computeAdjustedGoals(goals).g
    /\ loadingChef = FALSE
    /\ generatedRecipe = "null"
    /\ chefPending = 0
    /\ prompt = NoPrompt
    /\ dash = NoDash
    /\ RestInit

NextCoach ==
    \/ \E id \in NavViews : setView(id)
    \/ handleConsultCoach
    \/ handleConsultCoachResumed
    \/ resetCoachMessage

\* the request settles and the event loop runs the continuation
SpecCoach == InitCoach /\ [][NextCoach]_vars /\ WF_vars(handleConsultCoachResumed)

(***************************************************************************)
(* Properties                                                              *)
(***************************************************************************)
\* the sum of one nutrient field over the entries of a list
RECURSIVE SumOver(_, _, _)
SumOver(list, field, idx) ==
    IF idx = {} THEN 0
    ELSE LET i == CHOOSE j \in idx : TRUE
         IN  list[i][field] + SumOver(list, field, idx \ {i})

SumField(list, field) == SumOver(list, field, DOMAIN list)

HasSlot(list, slot) == slot \in {list[i].mealType : i \in DOMAIN list}

MacroFields == {"calories", "protein", "carbs", "fat"}

NutrientFields == MacroFields \cup {"fiber", "salt", "potassium"}

\* C1: the next meal of a recipe request follows the first-match decision
\* table: Breakfast if none is logged and hour < 11, otherwise Lunch if none
\* is logged and hour < 15, otherwise Dinner if none is logged, otherwise Snack.
C1_DecisionTable ==
    prompt.sent =>
        /\ prompt.time \in 0..23
        /\ prompt.nextMeal =
             IF ~HasSlot(entries, "Breakfast") /\ prompt.time < 11 THEN "Breakfast"
             ELSE IF ~HasSlot(entries, "Lunch") /\ prompt.time < 15 THEN "Lunch"
             ELSE IF ~HasSlot(entries, "Dinner") THEN "Dinner"
             ELSE "Snack"

C1_Witness ==
    /\ prompt.sent
    /\ HasSlot(entries, "Breakfast")
    /\ ~HasSlot(entries, "Lunch")
    /\ prompt.time = 9
    /\ prompt.nextMeal = "Lunch"

\* C2 as stated: with no entries at hour 3 the next meal is Dinner.
C2_DinnerAtThree ==
    (prompt.sent /\ entries = <<>> /\ prompt.time = 3) => prompt.nextMeal = "Dinner"

\* C2 amended: with no entries at hour 3 the next meal is Breakfast (rule 1
\* applies because 3 < 11), neither Dinner nor Snack.
C2_BreakfastAtThree ==
    (prompt.sent /\ entries = <<>> /\ prompt.time = 3) => prompt.nextMeal = "Breakfast"

C2_Witness ==
    /\ prompt.sent
    /\ entries = <<>>
    /\ prompt.time = 3

\* the rules in priority order, and the set of rules whose guard holds
RuleOrder == <<"Breakfast", "Lunch", "Dinner">>

GuardHolds(k, list, hour) ==
    CASE k = 1 -> ~HasSlot(list, "Breakfast") /\ hour < 11
      [] k = 2 -> ~HasSlot(list, "Lunch") /\ hour < 15
      [] k = 3 -> ~HasSlot(list, "Dinner")

HoldingRules(list, hour) == {k \in DOMAIN RuleOrder : GuardHolds(k, list, hour)}

\* C3 as stated: at most one of the three guards holds.
C3_GuardsExclusive ==
    prompt.sent => Cardinality(HoldingRules(entries, prompt.time)) <= 1

\* C3 amended: the guards may hold together; the rule of lowest rank among
\* those whose guard holds decides the next meal, and Snack results exactly
\* when no guard holds.
C3_FirstHoldingRuleWins ==
    prompt.sent =>
        LET holding == HoldingRules(entries, prompt.time)
        IN  IF holding = {} THEN prompt.nextMeal = "Snack"
            ELSE \E k \in holding :
                    /\ \A j \in holding : k <= j
                    /\ prompt.nextMeal = RuleOrder[k]

C3_Witness ==
    /\ prompt.sent
    /\ Cardinality(HoldingRules(entries, prompt.time)) = 3
    /\ prompt.nextMeal = "Breakfast"

\* C4: on a training day the effective calories are the base calories + 300
\* and the effective carbs at least the base carbs + 50, exactly + 50 when
\* steps <= 10000.
C4_TrainingDayAdditive ==
    goals.isTrainingDay =>
        /\ adjustedGoals.calories = goals.calories + 300
        /\ adjustedGoals.carbs >= goals.carbs + 50
        /\ (goals.steps <= 10000 => adjustedGoals.carbs = goals.carbs + 50)

C4_Witness ==
    /\ goals.isTrainingDay
    /\ goals.steps = 10000
    /\ goals.calories = 1800
    /\ adjustedGoals.calories = 2100
    /\ adjustedGoals.carbs = goals.carbs + 50

\* C5: more than 10000 steps add exactly 30 carbs (80 with a training day),
\* 10000 steps or fewer add nothing, and steps never change the calories.
C5_StepBonusStrict ==
    LET training == IF goals.isTrainingDay THEN 50 ELSE 0
    IN  /\ goals.steps > 10000 => adjustedGoals.carbs = goals.carbs + training + 30
        /\ goals.steps <= 10000 => adjustedGoals.carbs = goals.carbs + training
        /\ adjustedGoals.calories = goals.calories + (IF goals.isTrainingDay THEN 300 ELSE 0)

C5_Witness ==
    /\ goals.steps = 10001
    /\ goals.isTrainingDay
    /\ adjustedGoals.carbs = goals.carbs + 80
    /\ adjustedGoals.calories = goals.calories + 300

\* C6: deriving the effective goals leaves the base profile as the edit set
\* it (a step changes at most the edited field of the base), the effective
\* profile equals the base when no modifier applies, and it always agrees
\* with the base on every field other than calories and carbs.
C6_FrameFields ==
    /\ \A f \in GoalFields \ {"calories", "carbs"} : adjustedGoals[f] = goals[f]
    /\ (~goals.isTrainingDay /\ goals.steps <= 10000) => adjustedGoals = goals

C6_BaseKept ==
    Cardinality({f \in GoalFields : goals'[f] # goals[f]}) <= 1

C6_BaseNotMutated == []C6_FrameFields /\ [][C6_BaseKept]_vars

C6_Witness ==
    /\ goals.isTrainingDay
    /\ goals.steps = 11000
    /\ goals.calories = 2200
    /\ goals.carbs = 200
    /\ adjustedGoals.calories = 2500
    /\ adjustedGoals.carbs = 280

\* C7: after any sequence of goal edits and training-day toggles the effective
\* goals are the base goals plus the modifiers of the current base, applied
\* once.
EffectiveOf(base) ==
    [base EXCEPT
        !.calories = base.calories + (IF base.isTrainingDay THEN 300 ELSE 0),
        !.carbs = base.carbs + (IF base.isTrainingDay THEN 50 ELSE 0)
                             + (IF base.steps > 10000 THEN 30 ELSE 0)]

C7_EffectiveFollowsBase == adjustedGoals = EffectiveOf(goals)

C7_Witness ==
    /\ view = "profile"
    /\ goals.type = "Bulk"
    /\ goals.calories = 1800
    /\ goals.protein = 0
    /\ goals.steps = 11000
    /\ ~goals.isTrainingDay
    /\ adjustedGoals.calories = 1800
    /\ adjustedGoals.carbs = goals.carbs + 30

\* C8: each remaining macro of a recipe request is max(0, goal - total): never
\* negative, 0 when total >= goal, goal - total when total < goal.
C8_RemainingClamped ==
    prompt.sent =>
        \A f \in MacroFields :
            LET goal  == adjustedGoals[f]
                total == SumField(entries, f)
            IN  /\ prompt.remaining[f] >= 0
                /\ total >= goal => prompt.remaining[f] = 0
                /\ total < goal => prompt.remaining[f] = goal - total

C8_Witness ==
    /\ prompt.sent
    /\ SumField(entries, "calories") < adjustedGoals.calories
    /\ prompt.remaining.calories = 100
    /\ SumField(entries, "protein") = adjustedGoals.protein
    /\ SumField(entries, "carbs") > adjustedGoals.carbs
    /\ prompt.remaining.carbs = 0

\* C9: the remaining macros of a recipe request are taken against the
\* effective goals: base 2200/180/200/70 with training day and 11000 steps
\* and entries summing to 1200/90/150/40 leave 1300/90/130/30.
C9_Scenario ==
    /\ prompt.sent
    /\ goals.calories = 2200 /\ goals.protein = 180
    /\ goals.carbs = 200 /\ goals.fat = 70
    /\ goals.isTrainingDay /\ goals.steps = 11000
    /\ SumField(entries, "calories") = 1200 /\ SumField(entries, "protein") = 90
    /\ SumField(entries, "carbs") = 150 /\ SumField(entries, "fat") = 40

C9_RemainingAgainstEffective ==
    C9_Scenario =>
        prompt.remaining = [calories |-> 1300, protein |-> 90, carbs |-> 130, fat |-> 30]

C9_Witness == C9_Scenario /\ view = "coach"

\* C10: the dashboard totals are, field by field, the sums of the seven
\* nutrient fields over the entries, and all zero for an empty list.
DashTotal(f) ==
    CASE f = "calories"  -> dash.totalCals
      [] f = "protein"   -> dash.totalProtein
      [] f = "carbs"     -> dash.totalCarbs
      [] f = "fat"       -> dash.totalFat
      [] f = "fiber"     -> dash.totalFiber
      [] f = "salt"      -> dash.totalSalt
      [] f = "potassium" -> dash.totalPotassium

C10_TotalsAreSums ==
    dash.rendered =>
        /\ \A f \in NutrientFields : DashTotal(f) = SumField(entries, f)
        /\ entries = <<>> => \A f \in NutrientFields : DashTotal(f) = 0

C10_Witness ==
    /\ dash.rendered
    /\ Len(entries) = 2
    /\ dash.totalCals = 2200
    /\ dash.totalFiber = 12
    /\ dash.totalSalt = 2400
    /\ dash.totalPotassium = 1800

\* C11: for every meal slot and nutrient field the total over all entries is
\* the total over the entries of that slot plus the total over the others,
\* and the four meal-card calorie totals add up to the dashboard's total.
OtherSlots(list, slot) == SelectSeq(list, LAMBDA e : e.mealType # slot)

C11_SlotsPartitionTotals ==
    dash.rendered =>
        /\ \A slot \in MealTypes : \A f \in NutrientFields :
              DashTotal(f) = reduceOrZero(groupEntries(entries, slot), f, 0)
                             + SumField(OtherSlots(entries, slot), f)
        /\ \A slot \in MealTypes :
              dash.totalCals = dash.mealCals[slot]
                               + SumField(OtherSlots(entries, slot), "calories")
        /\ dash.totalCals = dash.mealCals["Breakfast"] + dash.mealCals["Lunch"]
                            + dash.mealCals["Dinner"] + dash.mealCals["Snack"]

C11_Witness ==
    /\ dash.rendered
    /\ Len(entries) = 2
    /\ dash.mealCals["Snack"] = 1200
    /\ dash.mealCals["Lunch"] = 1000
    /\ dash.mealCals["Breakfast"] = 0
    /\ dash.totalCals = 2200

\* C12: the dashboard totals of every reordering of the entries are the
\* totals of the entries.
Reorderings(list) ==
    { [i \in DOMAIN list |-> list[p[i]]] :
        p \in {q \in [DOMAIN list -> DOMAIN list] :
                 \A i, j \in DOMAIN list : q[i] = q[j] => i = j} }

C12_OrderIndependent ==
    dash.rendered =>
        \A other \in Reorderings(entries) :
            LET d == Dashboard(other, adjustedGoals)
            IN  /\ d.totalCals = dash.totalCals
                /\ d.totalProtein = dash.totalProtein
                /\ d.totalCarbs = dash.totalCarbs
                /\ d.totalFat = dash.totalFat
                /\ d.totalFiber = dash.totalFiber
                /\ d.totalSalt = dash.totalSalt
                /\ d.totalPotassium = dash.totalPotassium

C12_Witness ==
    /\ dash.rendered
    /\ Len(entries) = 2
    /\ entries[1].calories # entries[2].calories
    /\ Cardinality(Reorderings(entries)) = 2

\* the local calendar day of an instant, and the position (Mon = 1 .. Sun = 7)
\* of the local day of `today` in its week; day 0 is a Monday
LocalDay(t, tz) == (t + tz) \div 24

TodayPos == (LocalDay(weeklyHistory.today, weeklyHistory.tz) % 7) + 1

\* C13: the weekly log has 7 summaries labelled Mon .. Sun in order; it starts
\* at the local midnight of the Monday of today's week, 6 days back when today
\* is a Sunday and weekday - 1 days back otherwise, and today is one of the 7.
C13_WeekStartsMonday ==
    weeklyHistory.built =>
        LET L == LocalDay(weeklyHistory.today, weeklyHistory.tz)
            M == LocalDay(weeklyHistory.monday, weeklyHistory.tz)
        IN  /\ Len(weeklyHistory.days) = 7
            /\ \A k \in 1..7 :
                  weeklyHistory.days[k].dayName =
                      <<"Mon", "Tue", "Wed", "Thu", "Fri", "Sat", "Sun">>[k]
            /\ M % 7 = 0
            /\ (weeklyHistory.monday + weeklyHistory.tz) % 24 = 0
            /\ L - M = (IF L % 7 = 6 THEN 6 ELSE ((L % 7) + 1) - 1)
            /\ L - M \in 0..6

C13_Witness ==
    /\ weeklyHistory.built
    /\ TodayPos = 7
    /\ weeklyHistory.tz = 1
    /\ LocalDay(weeklyHistory.today, weeklyHistory.tz)
         - LocalDay(weeklyHistory.monday, weeklyHistory.tz) = 6

\* C14: every summary of a day after today has no entries.
C14_FutureDaysEmpty ==
    weeklyHistory.built =>
        \A k \in 1..7 : k > TodayPos => weeklyHistory.days[k].entries = <<>>

C14_Witness ==
    /\ weeklyHistory.built
    /\ entries # <<>>
    /\ goals.calories = 2200
    /\ TodayPos = 3
    /\ weeklyHistory.tz = 1
    /\ weeklyHistory.days[4].entries = <<>>
    /\ weeklyHistory.days[7].entries = <<>>

\* C15: the summary at today's position holds exactly the live entries, and
\* no other summary holds them.
C15_TodayHoldsLiveEntries ==
    weeklyHistory.built =>
        /\ weeklyHistory.days[TodayPos].entries = entries
        /\ \A k \in 1..7 \ {TodayPos} :
              entries # <<>> => weeklyHistory.days[k].entries # entries

\* C16 as stated: every summary before today holds one entry whose calories
\* lie within +/- 20% of the base goal calories.
C16_WithinTwentyPercent ==
    weeklyHistory.built =>
        \A k \in 1..7 : k < TodayPos =>
            /\ Len(weeklyHistory.days[k].entries) = 1
            /\ 10 * weeklyHistory.days[k].entries[1].calories >= 8 * goals.calories
            /\ 10 * weeklyHistory.days[k].entries[1].calories <= 12 * goals.calories

\* C16 amended: every summary before today holds one entry whose calories
\* are a value within +/- 20% of the base goal calories rounded to the nearest
\* integer, hence at most 0.5 outside that band.
C16_WithinTwentyPercentRounded ==
    weeklyHistory.built =>
        \A k \in 1..7 : k < TodayPos =>
            /\ Len(weeklyHistory.days[k].entries) = 1
            /\ 10 * weeklyHistory.days[k].entries[1].calories >= 8 * goals.calories - 5
            /\ 10 * weeklyHistory.days[k].entries[1].calories <= 12 * goals.calories + 5

C16_Witness ==
    /\ weeklyHistory.built
    /\ TodayPos >= 2
    /\ goals.calories = 2203
    /\ weeklyHistory.days[1].entries[1].calories = 1762

\* C17: the entry of every summary before today has protein, carbs and fat
\* equal to 0.3 * calories / 4, 0.4 * calories / 4 and 0.3 * calories / 9
\* rounded to the nearest integer (halves up), fiber 20, salt 2000, potassium
\* 3000, slot Snack and no tags or inflammation flags.
C17_MockMacros ==
    weeklyHistory.built =>
        \A k \in 1..7 : k < TodayPos =>
            LET e == weeklyHistory.days[k].entries[1]
            IN  /\ 3 * e.calories - 20 < 40 * e.protein
                /\ 40 * e.protein <= 3 * e.calories + 20
                /\ 4 * e.calories - 20 < 40 * e.carbs
                /\ 40 * e.carbs <= 4 * e.calories + 20
                /\ 3 * e.calories - 45 < 90 * e.fat
                /\ 90 * e.fat <= 3 * e.calories + 45
                /\ e.fiber = 20 /\ e.salt = 2000 /\ e.potassium = 3000
                /\ e.mealType = "Snack"
                /\ e.tags = <<>> /\ e.inflammationFlags = <<>>

C17_Witness ==
    /\ weeklyHistory.built
    /\ TodayPos = 7
    /\ weeklyHistory.days[6].entries[1].calories = 2639
    /\ weeklyHistory.days[6].entries[1].protein = 198
    /\ weeklyHistory.days[6].entries[1].carbs = 264
    /\ weeklyHistory.days[6].entries[1].fat = 88

\* C18: the date of the k-th summary is the calendar day of the k-th day of
\* today's week, and the summary dated today is the one at today's position.
C18_DatesAreCalendarDays ==
    weeklyHistory.built =>
        LET L == LocalDay(weeklyHistory.today, weeklyHistory.tz)
        IN  /\ \A k \in 1..7 : weeklyHistory.days[k].date = (L - (L % 7)) + (k - 1)
            /\ \A k \in 1..7 : (weeklyHistory.days[k].date = L) <=> (k = TodayPos)

\* the mounted Logger logs a new entry
NewEntryFlow == logger.mounted /\ logger.initialEntry = undefined

\* in every state: after a failed analysis the Logger is on its input step
\* and not loading, and the review step of a new entry has a fulfilled analysis
C19_FailureKeepsInputStep ==
    /\ (logger.mounted /\ logger.analysis = "rejected")
            => (logger.step = "input" /\ ~logger.loading)
    /\ (NewEntryFlow /\ logger.step = "review") => logger.analysis = "fulfilled"

\* in every step: a failing analysis leaves the entries as they are; the
\* entry list grows only from the review step of a Logger whose analysis was
\* fulfilled; a new entry's Logger reaches the review step only as a pending
\* analysis is fulfilled
C19_EntryOnlyAfterAnalysis ==
    /\ (logger.mounted /\ logger.analysis = "pending"
            /\ logger'.mounted /\ logger'.analysis = "rejected")
            => entries' = entries
    /\ Len(entries') > Len(entries)
            => (NewEntryFlow /\ logger.step = "review" /\ logger.analysis = "fulfilled")
    /\ (NewEntryFlow /\ logger.step = "input" /\ logger'.mounted
            /\ logger'.step = "review")
            => (logger.analysis = "pending" /\ logger'.analysis = "fulfilled")

\* C19: a new entry is added only after a successful analysis; a failed
\* analysis leaves the entries unchanged, the Logger on its input step and
\* its loading flag false; a new entry's review step is reached only through
\* a successful analysis.
C19_SaveOnlyAfterAnalysis ==
    []C19_FailureKeepsInputStep /\ [][C19_EntryOnlyAfterAnalysis]_vars

\* an entry was saved, and a later analysis for a second entry has failed
C19_Witness ==
    /\ Len(entries) = 1
    /\ NewEntryFlow
    /\ logger.analysis = "rejected"
    /\ logger.step = "input"
    /\ ~logger.loading

\* the coach panel shows a message
HasCoachMessage == coachMessage \notin {"null", "", "undefined"}

C21_CoreIsTotal ==
    /\ prompt.sent =>
          /\ \A f \in MacroFields : prompt.remaining[f] \in Nat
          /\ prompt.nextMeal \in MealTypes
    /\ dash.rendered =>
          /\ \A f \in {"totalCals", "totalProtein", "totalCarbs", "totalFat",
                       "totalFiber", "totalSalt", "totalPotassium"} : dash[f] \in Nat
          /\ dash.remainingCals \in Int
          /\ dash.gaugeRemaining \in Nat

\* no entries, all-zero goals and hour 24
C21_Witness ==
    /\ entries = <<>>
    /\ goals = ZERO_GOALS
    /\ prompt.sent
    /\ prompt.time = 24
    /\ prompt.nextMeal = "Dinner"
    /\ dash.rendered
    /\ dash.totalCals = 0

\* the ids of an entry list, in order
Ids(list) == [i \in 1..Len(list) |-> list[i].id]

\* C22: after any sequence of handleSaveEntry and handleDeleteEntry calls
\* from the empty collection no two entries share an id.
C22_IdsUnique ==
    \A i, j \in 1..Len(entries) : entries[i].id = entries[j].id => i = j

\* every id is present, the ids having been saved out of order
C22_Witness ==
    /\ Len(entries) = MaxUuids + 1
    /\ entries[1].id = 2
    /\ entries[1].mealType = "Snack"
    /\ entries[2].id = 1

\* the entries of a list whose id is not id, in order
Without(list, id) == SelectSeq(list, LAMBDA e : e.id # id)

\* a step that shortens the entry list, or leaves it while nothing else
\* changes its entries, is a deletion of some id: the result is the list
\* without the entries of that id, the kept entries in their order, and
\* nothing else of the app changes
C25_DeleteStep ==
    Len(entries') < Len(entries) =>
        /\ \E id \in EntryIds :
              /\ \E i \in 1..Len(entries) : entries[i].id = id
              /\ Len(entries') = Len(entries) - 1
              /\ \A i \in 1..Len(entries) :
                    entries[i].id # id =>
                        \E k \in 1..Len(entries') : entries'[k] = entries[i]
              /\ \A k \in 1..Len(entries') : entries'[k].id # id
              /\ \A k, l \in 1..Len(entries') :
                    k < l =>
                        \E i, j \in 1..Len(entries) :
                            i < j /\ entries[i] = entries'[k] /\ entries[j] = entries'[l]
        /\ goals' = goals
        /\ adjustedGoals' = adjustedGoals
        /\ waterIntake' = waterIntake
        /\ view' = view
        /\ showLogger' = showLogger
        /\ editingEntry' = editingEntry
        /\ logger' = logger

\* C25: handleDeleteEntry(id) removes exactly the entry with that id, keeps
\* the others in order, and leaves goals, water intake, view and logger state
\* as they are.
C25_DeleteRemovesOne == [][C25_DeleteStep]_vars

\* the first of three entries was deleted after water was logged on a
\* training day
C25_Witness ==
    /\ Len(entries) = 2
    /\ entries[1].id = 2
    /\ entries[2].id = 3
    /\ waterIntake = 250
    /\ goals.isTrainingDay

\* C23: the weekly calorie target is the effective goal calories times the
\* number of days of the week passed, today included.
C23_TargetCountsDaysPassed ==
    weeklyHistory.built =>
        weeklyHistory.stats.targetWeeklyCals = adjustedGoals.calories * TodayPos

\* the entry the Save button of the mounted Logger builds
BuiltEntry ==
    FoodEntry(IF logger.initialEntry = undefined THEN uuids + 1
              ELSE logger.initialEntry[1].id,
              logger.mealType, logger)

\* a step that closes a Logger on its review step either cancels (entries
\* and ids drawn unchanged) or saves the built entry: in place of the entry
\* with its id, all else as it was, or at the end when the id is new; the
\* Logger of an edit leaves the ids of the list as they are
C24_SaveStep ==
    (logger.mounted /\ logger.step = "review" /\ ~logger'.mounted) =>
        /\ \/ entries' = entries /\ uuids' = uuids
           \/ /\ \E i \in 1..Len(entries) : entries[i].id = BuiltEntry.id
              /\ Len(entries') = Len(entries)
              /\ \A i \in 1..Len(entries) :
                    entries'[i] = IF entries[i].id = BuiltEntry.id
                                  THEN BuiltEntry ELSE entries[i]
           \/ /\ \A i \in 1..Len(entries) : entries[i].id # BuiltEntry.id
              /\ entries' = Append(entries, BuiltEntry)
        /\ logger.initialEntry # undefined => Ids(entries') = Ids(entries)
        /\ uuids' # uuids => entries' = Append(entries, BuiltEntry)

\* C24: handleSaveEntry replaces the entry with the saved id in place and
\* appends an entry with a new id; an edit through the Logger keeps the id
\* and so the number of entries.
C24_SaveIsUpsert == [][C24_SaveStep]_vars

\* two entries saved, the first now a Snack without nutrients, the second a
\* Breakfast, the modal closed
C24_Witness ==
    /\ ~showLogger
    /\ Ids(entries) = <<1, 2>>
    /\ entries[1].mealType = "Snack"
    /\ entries[1].calories = 0
    /\ entries[2].mealType = "Breakfast"
    /\ entries[2].calories = 1200

\* C28: the editing entry is set only while the modal is shown, and the
\* mounted Logger is the one of the current editing entry, so a Logger for a
\* new entry starts empty.
C28_EditingOnlyWhileShown ==
    /\ editingEntry # undefined => showLogger
    /\ logger.mounted = showLogger
    /\ logger.mounted => logger.initialEntry = editingEntry
    /\ (logger.mounted /\ editingEntry = undefined /\ logger.analysis = "none")
            => logger.calories = 0

\* an entry is logged, and the modal is open again for a new entry
C28_Witness ==
    /\ Len(entries) = 1
    /\ showLogger
    /\ editingEntry = undefined
    /\ logger.step = "input"
    /\ logger.analysis = "none"
    /\ uuids = 1

\* a step that starts a request shows the coach view and sets loadingChef; a
\* step that ends one clears loadingChef and either keeps the generated
\* recipe (or its absence) or stores the recipe received
C26_RequestStep ==
    /\ chefPending' > chefPending => (view' = "coach" /\ loadingChef')
    /\ chefPending' < chefPending =>
          /\ ~loadingChef'
          /\ generatedRecipe' = generatedRecipe \/ generatedRecipe' = "recipe"

\* C26: every recipe request ends, on success and on failure, with
\* loadingChef false; a failure leaves the generated recipe as it was; the
\* view is coach as soon as the request starts.
C26_RequestEndsNotLoading ==
    (loadingChef ~> ~loadingChef) /\ [][C26_RequestStep]_vars

\* a request has ended without a recipe: it failed
C26_Witness ==
    /\ prompt.sent
    /\ chefPending = 0
    /\ ~loadingChef
    /\ generatedRecipe = "null"
    /\ view = "coach"

\* C27: loadingChef is true whenever a recipe request is in flight.
C27_LoadingWhileInFlight == chefPending > 0 => loadingChef

\* C30: whenever the analysis result of a new entry carries a mealType, the
\* meal slot of the Logger after the analysis is that mealType.
C30_ResultSlotWins ==
    [][(NewEntryFlow /\ logger.analysis = "pending" /\ logger'.mounted
            /\ logger'.analysis = "fulfilled"
            /\ "mealType" \in DOMAIN logger'.result[1])
        => logger'.mealType = logger'.result[1].mealType]_vars

\* C29: the next meal is Breakfast, Lunch or Dinner only when no entry of
\* that slot is logged, and it is Snack, at every hour, when all three are
\* logged.
C29_NeverProposesLoggedMeal ==
    prompt.sent =>
        /\ prompt.nextMeal \in {"Breakfast", "Lunch", "Dinner"}
                => ~HasSlot(entries, prompt.nextMeal)
        /\ (HasSlot(entries, "Breakfast") /\ HasSlot(entries, "Lunch")
                /\ HasSlot(entries, "Dinner"))
                => prompt.nextMeal = "Snack"

\* Breakfast, Lunch and Dinner are logged and the request of 19:00 asks for
\* a Snack
C29_Witness ==
    /\ prompt.sent
    /\ prompt.time = 19
    /\ HasSlot(entries, "Breakfast")
    /\ HasSlot(entries, "Lunch")
    /\ HasSlot(entries, "Dinner")
    /\ prompt.nextMeal = "Snack"


=============================================================================
